---- MODULE Spec2Model ----
(***************************************************************************)
(* Model of src/main.py: ExcelConfig and ExcelProcessor.                   *)
(*                                                                         *)
(* Text is a sequence of one-character strings, so that str.replace,       *)
(* int() and str() are computed character by character.  A Python value    *)
(* held by a cell is a record [t, s, n]: t is the type ("none", "str",     *)
(* "int"), s the text of a str, n the number of an int.                    *)
(***************************************************************************)
EXTENDS Integers, Sequences, FiniteSets, TLC

VARIABLES
    worksheet,       \* self.worksheet: the cells of the loaded sheet, <<row, col>> -> value
    new_worksheet,   \* new_workbook.active: the cells of the output sheet
    subject_number,  \* local of process_worksheet
    warnings,        \* the st.warning calls made so far
    sample_num,      \* loop variable of _process_samples
    start_rows,      \* sample -> the start_row local computed for it
    reads,           \* sample -> the (row, col) pairs handed to _get_cell_value_safely
    pc,              \* position in the run
    args,            \* arguments of the utility under call
    result           \* its return value(s)

vars == <<worksheet, new_worksheet, subject_number, warnings, sample_num,
          start_rows, reads, pc, args, result>>

----------------------------------------------------------------------------
(* Python values *)

None == [t |-> "none", s |-> <<>>, n |-> 0]

PyStr(chars) == [t |-> "str", s |-> chars, n |-> 0]

PyInt(k) == [t |-> "int", s |-> <<>>, n |-> k]

DigitChars == <<"0", "1", "2", "3", "4", "5", "6", "7", "8", "9">>

RECURSIVE Digits(_)
Digits(k) ==
    IF k < 10 THEN <<DigitChars[k + 1]>>
    ELSE Digits(k \div 10) \o <<DigitChars[(k % 10) + 1]>>

\* str(value)
str(value) ==
    CASE value.t = "str" -> value.s
      [] value.t = "int" -> IF value.n < 0 THEN <<"-">> \o Digits(-value.n)
                            ELSE Digits(value.n)
      [] OTHER -> <<"N", "o", "n", "e">>

\* bool(value): the truth value an `if value` tests
truthy(value) ==
    CASE value.t = "str" -> value.s # <<>>
      [] value.t = "int" -> value.n # 0
      [] OTHER -> FALSE

\* old occurs in s at position i
OccursAt(s, old, i) ==
    /\ i + Len(old) - 1 <= Len(s)
    /\ SubSeq(s, i, i + Len(old) - 1) = old

RECURSIVE replace_from(_, _, _)
replace_from(s, old, i) ==
    IF i > Len(s) THEN <<>>
    ELSE IF OccursAt(s, old, i) THEN replace_from(s, old, i + Len(old))
    ELSE <<s[i]>> \o replace_from(s, old, i + 1)

\* s.replace(old, ''): every non-overlapping occurrence, found left to right, removed
replace(s, old) == replace_from(s, old, 1)

Contains(s, old) == \E i \in 1..Len(s) : OccursAt(s, old, i)

IsDigit(c) == \E i \in 1..10 : DigitChars[i] = c

RECURSIVE DigitsValue(_)
DigitsValue(s) ==
    IF s = <<>> THEN 0
    ELSE 10 * DigitsValue(SubSeq(s, 1, Len(s) - 1))
         + (CHOOSE i \in 0..9 : DigitChars[i + 1] = s[Len(s)])

RECURSIVE lstrip(_)
lstrip(s) == IF s # <<>> /\ Head(s) = " " THEN lstrip(Tail(s)) ELSE s

RECURSIVE rstrip(_)
rstrip(s) ==
    IF s # <<>> /\ s[Len(s)] = " " THEN rstrip(SubSeq(s, 1, Len(s) - 1)) ELSE s

\* int(s) of a str: surrounding blanks stripped, an optional sign, then digits;
\* anything else raises ValueError
int(s) ==
    LET body == rstrip(lstrip(s))
        signed == body # <<>> /\ Head(body) \in {"+", "-"}
        digits == IF signed THEN Tail(body) ELSE body
        ok == digits # <<>> /\ \A i \in 1..Len(digits) : IsDigit(digits[i])
    IN  IF ok
        THEN [raised |-> FALSE,
              value |-> IF signed /\ Head(body) = "-" THEN -DigitsValue(digits)
                        ELSE DigitsValue(digits)]
        ELSE [raised |-> TRUE, value |-> 0]

----------------------------------------------------------------------------
(* ExcelConfig *)

TRIALS_PER_SAMPLE == 9

START_SAMPLE == 2

END_SAMPLE == 25

\* SUBJECT_NUMBER_CELL 'A12' as (row, col)
SUBJECT_NUMBER_CELL == <<12, 1>>

COLUMN_HEADERS == <<
    \* 'Subject Number'
    <<"S","u","b","j","e","c","t"," ","N","u","m","b","e","r">>,
    \* 'trial'
    <<"t","r","i","a","l">>,
    \* 'null'
    <<"n","u","l","l">>,
    \* 'condition'
    <<"c","o","n","d","i","t","i","o","n">>,
    \* 'time'
    <<"t","i","m","e">>,
    \* 'Relationship'
    <<"R","e","l","a","t","i","o","n","s","h","i","p">>,
    \* 'ControlQ1 Copy 2'
    <<"C","o","n","t","r","o","l","Q","1"," ","C","o","p","y"," ","2">>,
    \* 'ControlQ1 Copy - 2 - 2'
    <<"C","o","n","t","r","o","l","Q","1"," ","C","o","p","y"," ","-"," ","2"," ","-"," ","2">>,
    \* 'FirstMoozleProp Copy 13'
    <<"F","i","r","s","t","M","o","o","z","l","e","P","r","o","p"," ","C","o","p","y"," ","1","3">>,
    \* 'SecondMoozleProp Copy 13'
    <<"S","e","c","o","n","d","M","o","o","z","l","e","P","r","o","p"," ","C","o","p","y"," ","1","3">>,
    \* 'SecondMoozleProp2 Copy 13'
    <<"S","e","c","o","n","d","M","o","o","z","l","e","P","r","o","p","2"," ","C","o","p","y"," ","1","3">>,
    \* 'ChoiceResponse Copy 2'
    <<"C","h","o","i","c","e","R","e","s","p","o","n","s","e"," ","C","o","p","y"," ","2">>,
    \* 'ControlQ2 Copy 2'
    <<"C","o","n","t","r","o","l","Q","2"," ","C","o","p","y"," ","2">>,
    \* 'ControlQ2 Copy-2 - 2'
    <<"C","o","n","t","r","o","l","Q","2"," ","C","o","p","y","-","2"," ","-"," ","2">>,
    \* 'Choice'
    <<"C","h","o","i","c","e">>,
    \* 'SameChoice'
    <<"S","a","m","e","C","h","o","i","c","e">>,
    \* 'BeliefType'
    <<"B","e","l","i","e","f","T","y","p","e">>,
    \* 'AgeGroup'
    <<"A","g","e","G","r","o","u","p">> >>

\* '.PICT @ :Pictures:'
PICT == <<".","P","I","C","T"," ","@"," ",":","P","i","c","t","u","r","e","s",":">>

\* 'Subject Number: '
SUBJECT_PREFIX == <<"S","u","b","j","e","c","t"," ","N","u","m","b","e","r",":"," ">>

\* "don't know"
DONT_KNOW == <<"d","o","n","'","t"," ","k","n","o","w">>

----------------------------------------------------------------------------
(* The openpyxl worksheet, as far as the processor uses it *)

\* worksheet.cell(row=, column=) raises ValueError below row 1 or column 1
cell_raises(row, col) == row < 1 \/ col < 1

\* worksheet.cell(row=, column=).value: a cell that does not exist yet is
\* created empty, so its value is None
cell_value(ws, row, col) ==
    IF <<row, col>> \in DOMAIN ws THEN ws[<<row, col>>] ELSE None

\* the sheet after worksheet.cell(row=, column=): the cell now exists
cell_touch(ws, row, col) == ws @@ (<<row, col>> :> None)

\* the sheet after worksheet.cell(row=, column=, value=): the cell exists, and
\* holds value unless value is None
cell_set(ws, row, col, value) ==
    IF value.t = "none" THEN cell_touch(ws, row, col)
    ELSE (<<row, col>> :> value) @@ ws

----------------------------------------------------------------------------
(* ExcelProcessor *)

\* _clean_string with the last replace dropped: ']' stays
_clean_string_keeps_close(value) ==
    IF value.t = "none" THEN PyStr(<<>>)
    ELSE PyStr(replace(replace(str(value), PICT), <<"[">>))

_clean_string(value) ==
    IF value.t = "none" THEN PyStr(<<>>)
    ELSE PyStr(replace(replace(replace(str(value), PICT), <<"[">>), <<"]">>))

\* _get_cell_value_safely returning None, not '', for a failed access or an empty cell
_get_cell_value_unsafely(ws, row, col) ==
    IF cell_raises(row, col) THEN None
    ELSE LET value == cell_value(ws, row, col)
         IN  IF value.t # "none" THEN _clean_string(value) ELSE None

_get_cell_value_safely(ws, row, col) ==
    IF cell_raises(row, col) THEN PyStr(<<>>)
    ELSE LET value == cell_value(ws, row, col)
         IN  IF value.t # "none" THEN _clean_string(value) ELSE PyStr(<<>>)

\* the value _get_subject_number returns, and whether it called st.warning:
\* a falsy cell skips the conversion and the function falls off its end
\* (returns None); a str is converted, a failure is caught; any other truthy
\* value has no .replace, which is caught as well
_get_subject_number(ws) ==
    LET subject_cell == cell_value(ws, SUBJECT_NUMBER_CELL[1], SUBJECT_NUMBER_CELL[2])
    IN  IF truthy(subject_cell)
        THEN IF subject_cell.t = "str"
             THEN LET r == int(replace(subject_cell.s, SUBJECT_PREFIX))
                  IN  IF r.raised THEN [value |-> PyInt(0), warned |-> TRUE]
                      ELSE [value |-> PyInt(r.value), warned |-> FALSE]
             ELSE [value |-> PyInt(0), warned |-> TRUE]
        ELSE [value |-> None, warned |-> FALSE]

RECURSIVE _initialize_new_workbook_from(_, _)
_initialize_new_workbook_from(ws, idx) ==
    IF idx > Len(COLUMN_HEADERS) THEN ws
    ELSE _initialize_new_workbook_from(
             cell_set(ws, 1, idx, PyStr(COLUMN_HEADERS[idx])), idx + 1)

\* openpyxl.Workbook().active with the headers in row 1
_initialize_new_workbook == _initialize_new_workbook_from(<<>>, 1)

\* start_row with blocks of 8 rows
start_row_stride_8(s) == IF s > 2 THEN (s - 2) * 8 + 1 ELSE 1

\* start_row counting samples from 1
start_row_off_by_one(s) == IF s > 2 THEN (s - 1) * 9 + 1 ELSE 1

\* start_row of _process_samples
start_row(s) == IF s > 2 THEN (s - 2) * 9 + 1 ELSE 1

Field(name, col_num, row_off, col) ==
    [name |-> name, col_num |-> col_num, cell |-> TRUE, row_off |-> row_off, col |-> col]

\* mappings with 'time' written one column early, under the 'null' header
mappings_time_in_null_column == <<
    [name |-> COLUMN_HEADERS[1], col_num |-> 1, cell |-> FALSE, row_off |-> 0, col |-> 0],
    Field(COLUMN_HEADERS[2], 2, 0, 3),
    Field(COLUMN_HEADERS[4], 4, 0, 6),
    Field(COLUMN_HEADERS[5], 3, 6, 12),
    Field(COLUMN_HEADERS[6], 6, 0, 5),
    Field(COLUMN_HEADERS[7], 7, 1, 14),
    Field(COLUMN_HEADERS[8], 8, 2, 14),
    Field(COLUMN_HEADERS[9], 9, 3, 5),
    Field(COLUMN_HEADERS[10], 10, 4, 5),
    Field(COLUMN_HEADERS[11], 11, 5, 5),
    Field(COLUMN_HEADERS[12], 12, 6, 14),
    Field(COLUMN_HEADERS[13], 13, 7, 14),
    Field(COLUMN_HEADERS[14], 14, 8, 14) >>

\* the mappings dict of _process_samples, in insertion order: the output
\* column of each field and where its value comes from (the subject number, or
\* the cell at start_row + row_off, col)
mappings == <<
    [name |-> COLUMN_HEADERS[1], col_num |-> 1, cell |-> FALSE, row_off |-> 0, col |-> 0],
    Field(COLUMN_HEADERS[2], 2, 0, 3),
    Field(COLUMN_HEADERS[4], 4, 0, 6),
    Field(COLUMN_HEADERS[5], 5, 6, 12),
    Field(COLUMN_HEADERS[6], 6, 0, 5),
    Field(COLUMN_HEADERS[7], 7, 1, 14),
    Field(COLUMN_HEADERS[8], 8, 2, 14),
    Field(COLUMN_HEADERS[9], 9, 3, 5),
    Field(COLUMN_HEADERS[10], 10, 4, 5),
    Field(COLUMN_HEADERS[11], 11, 5, 5),
    Field(COLUMN_HEADERS[12], 12, 6, 14),
    Field(COLUMN_HEADERS[13], 13, 7, 14),
    Field(COLUMN_HEADERS[14], 14, 8, 14) >>

\* the (row, col) pairs the lambdas of sample s hand to _get_cell_value_safely
sample_reads(s) ==
    {<<start_row(s) + mappings[i].row_off, mappings[i].col>> :
        i \in {j \in 1..Len(mappings) : mappings[j].cell}}

\* value_func() of the i-th mapping
value_func(ws, subject, s, i) ==
    IF mappings[i].cell
    THEN _get_cell_value_safely(ws, start_row(s) + mappings[i].row_off, mappings[i].col)
    ELSE subject

RECURSIVE apply_mappings_from(_, _, _, _, _)
apply_mappings_from(out, ws, subject, s, i) ==
    IF i > Len(mappings) THEN out
    ELSE apply_mappings_from(
             cell_set(out, s, mappings[i].col_num, value_func(ws, subject, s, i)),
             ws, subject, s, i + 1)

\* the apply loop skipping a sample none of whose source cells is readable
apply_mappings_skipping_blank(out, ws, subject, s) ==
    IF \A i \in 1..Len(mappings) :
           mappings[i].cell => value_func(ws, subject, s, i) = PyStr(<<>>)
    THEN out
    ELSE apply_mappings_from(out, ws, subject, s, 1)

\* the "Apply mappings" loop of one sample: the output sheet after it
\* (base_row = sample_num)
apply_mappings(out, ws, subject, s) == apply_mappings_from(out, ws, subject, s, 1)

\* the source sheet after the reads of sample s: every cell read exists
RECURSIVE touch_all(_, _)
touch_all(ws, coords) ==
    IF coords = {} THEN ws
    ELSE LET rc == CHOOSE x \in coords : TRUE
         IN  touch_all(IF cell_raises(rc[1], rc[2]) THEN ws
                       ELSE cell_touch(ws, rc[1], rc[2]),
                       coords \ {rc})

----------------------------------------------------------------------------
(* The worksheets a run starts from *)

\* the text a data cell at (r, c) carries before any artifact markup
CellText(r, c) == <<"r">> \o Digits(r) \o <<"c">> \o Digits(c)

Styles == <<"plain", "bracket", "pict", "none", "int", "empty", "absent", "both">>

StyleAt(r, c, k) == Styles[((r + c + k) % Len(Styles)) + 1]

CellContent(r, c, k) ==
    CASE StyleAt(r, c, k) = "plain" -> PyStr(CellText(r, c))
      [] StyleAt(r, c, k) = "bracket" -> PyStr(<<"[">> \o CellText(r, c) \o <<"]">>)
      [] StyleAt(r, c, k) = "pict" -> PyStr(CellText(r, c) \o PICT)
      [] StyleAt(r, c, k) = "both" -> PyStr(CellText(r, c) \o <<"[", "1", "]">> \o PICT)
      [] StyleAt(r, c, k) = "int" -> PyInt(r * 100 + c)
      [] StyleAt(r, c, k) = "empty" -> PyStr(<<>>)
      [] OTHER -> None

DataCols == {3, 4, 5, 6, 12, 13, 14}

NumSamples == END_SAMPLE - START_SAMPLE + 1

\* the sheet ends after this row
LastRows == {0, TRIALS_PER_SAMPLE, TRIALS_PER_SAMPLE + 4, NumSamples * TRIALS_PER_SAMPLE}

Absent == [t |-> "absent", s |-> <<>>, n |-> 0]

\* what cell A12 may hold
SubjectCells == {
    Absent,
    None,
    PyStr(<<>>),
    PyStr(SUBJECT_PREFIX \o <<"7">>),
    PyStr(SUBJECT_PREFIX \o <<"1", "2">>),
    PyStr(SUBJECT_PREFIX \o <<"x">>),
    PyStr(SUBJECT_PREFIX),
    PyStr(<<"7">>),
    PyStr(<<"S", "u", "b", "j", "e", "c", "t", " ", "7">>),
    PyInt(7),
    PyInt(0) }

Sheet(lastRow, k, a12) ==
    LET data == {rc \in (1..lastRow) \X DataCols : StyleAt(rc[1], rc[2], k) # "absent"}
        subj == IF a12 = Absent THEN {} ELSE {SUBJECT_NUMBER_CELL}
    IN  [rc \in data \cup subj |->
            IF rc = SUBJECT_NUMBER_CELL THEN a12 ELSE CellContent(rc[1], rc[2], k)]

NoSamples == [s \in {} |-> 0]

----------------------------------------------------------------------------
(* process_worksheet *)

Init ==
    /\ \E lastRow \in LastRows, k \in 0..(Len(Styles) - 1), a12 \in SubjectCells :
           worksheet = Sheet(lastRow, k, a12)
    /\ new_worksheet = <<>>
    /\ subject_number = None
    /\ warnings = 0
    /\ sample_num = START_SAMPLE
    /\ start_rows = NoSamples
    /\ reads = NoSamples
    /\ pc = "start"
    /\ args = <<>>
    /\ result = <<>>

InitializeNewWorkbook ==
    /\ pc = "start"
    /\ new_worksheet' = _initialize_new_workbook
    /\ pc' = "subject"
    /\ UNCHANGED <<worksheet, subject_number, warnings, sample_num, start_rows,
                   reads, args, result>>

GetSubjectNumber ==
    /\ pc = "subject"
    /\ subject_number' = _get_subject_number(worksheet).value
    /\ warnings' = warnings + (IF _get_subject_number(worksheet).warned THEN 1 ELSE 0)
    /\ worksheet' = cell_touch(worksheet, SUBJECT_NUMBER_CELL[1], SUBJECT_NUMBER_CELL[2])
    /\ pc' = "samples"
    /\ UNCHANGED <<new_worksheet, sample_num, start_rows, reads, args, result>>

ProcessSample ==
    /\ pc = "samples"
    /\ sample_num <= END_SAMPLE
    /\ new_worksheet' = apply_mappings(new_worksheet, worksheet, subject_number, sample_num)
    /\ worksheet' = touch_all(worksheet, sample_reads(sample_num))
    /\ start_rows' = start_rows @@ (sample_num :> start_row(sample_num))
    /\ reads' = reads @@ (sample_num :> sample_reads(sample_num))
    /\ sample_num' = sample_num + 1
    /\ UNCHANGED <<subject_number, warnings, pc, args, result>>

Return ==
    /\ pc = "samples"
    /\ sample_num > END_SAMPLE
    /\ pc' = "done"
    /\ UNCHANGED <<worksheet, new_worksheet, subject_number, warnings, sample_num,
                   start_rows, reads, args, result>>

Next == InitializeNewWorkbook \/ GetSubjectNumber \/ ProcessSample \/ Return

Spec == Init /\ [][Next]_vars

----------------------------------------------------------------------------
(* The utilities, each called on its own *)

MaxLen == 2

MaxFrags == 3

runVars == <<new_worksheet, subject_number, warnings, sample_num, start_rows, reads>>

NoRun ==
    /\ new_worksheet = <<>>
    /\ subject_number = None
    /\ warnings = 0
    /\ sample_num = START_SAMPLE
    /\ start_rows = NoSamples
    /\ reads = NoSamples

\* the sequences over S of length at most n
SeqsUpTo(S, n) == UNION {[1..m -> S] : m \in 0..n}

(* _get_cell_value_safely(row, col) *)

ReaderLastRows == {0, TRIALS_PER_SAMPLE + 4}

ReaderRows == -1..(TRIALS_PER_SAMPLE + 5)

ReaderCols == -1..15

InitReader ==
    /\ \E lastRow \in ReaderLastRows, k \in 0..(Len(Styles) - 1) :
           worksheet = Sheet(lastRow, k, Absent)
    /\ args \in ReaderRows \X ReaderCols
    /\ result = <<>>
    /\ pc = "call"
    /\ NoRun

GetCellValueSafely ==
    /\ pc = "call"
    /\ result' = _get_cell_value_safely(worksheet, args[1], args[2])
    /\ worksheet' = touch_all(worksheet, {args})
    /\ pc' = "returned"
    /\ UNCHANGED <<args, runVars>>

SpecReader == InitReader /\ [][GetCellValueSafely]_vars

(* _clean_string(value) *)

\* pieces of cell text: the halves of the artifact literal, the brackets, plain text
Fragments == {
    <<".","P","I","C","T"," ","@"," ">>,
    <<":","P","i","c","t","u","r","e","s",":">>,
    <<"[">>,
    <<"]">>,
    <<"f","o","o">>,
    <<"1">> }

RECURSIVE FragStrings(_)
FragStrings(n) ==
    IF n = 0 THEN {<<>>}
    ELSE LET shorter == FragStrings(n - 1)
         IN  shorter \cup {p \o f : p \in shorter, f \in Fragments}

\* 'foo[1].PICT @ :Pictures:'
FooExample == <<"f","o","o","[","1","]">> \o PICT

CleanInputs ==
    {PyStr(x) : x \in FragStrings(MaxFrags) \cup {FooExample}}
        \cup {None, PyInt(0), PyInt(12)}

InitClean ==
    /\ args \in CleanInputs
    /\ result = <<>>
    /\ pc = "call"
    /\ worksheet = <<>>
    /\ NoRun

CleanOnce ==
    /\ pc = "call"
    /\ result' = <<_clean_string(args)>>
    /\ pc' = "once"
    /\ UNCHANGED <<args, worksheet, runVars>>

CleanTwice ==
    /\ pc = "once"
    /\ result' = Append(result, _clean_string(result[1]))
    /\ pc' = "twice"
    /\ UNCHANGED <<args, worksheet, runVars>>

NextClean == CleanOnce \/ CleanTwice

SpecClean == InitClean /\ [][NextClean]_vars

(* process_choice(m_column, l_column, k_column) *)

T(c) == PyStr(<<c>>)

\* process_choice with the L and K columns exchanged
RECURSIVE process_choice_swapped(_, _, _)
process_choice_swapped(m, l, k) ==
    IF m = <<>> \/ l = <<>> \/ k = <<>> THEN <<>>
    ELSE <<CASE Head(m) = T("j") -> Head(k)
             [] Head(m) = T("f") -> Head(l)
             [] Head(m) = T("d") -> PyStr(DONT_KNOW)
             [] OTHER -> None>>
         \o process_choice_swapped(Tail(m), Tail(l), Tail(k))

\* a column is the sequence of its cells' values; zip stops at the shortest
RECURSIVE process_choice(_, _, _)
process_choice(m, l, k) ==
    IF m = <<>> \/ l = <<>> \/ k = <<>> THEN <<>>
    ELSE <<CASE Head(m) = T("j") -> Head(l)
             [] Head(m) = T("f") -> Head(k)
             [] Head(m) = T("d") -> PyStr(DONT_KNOW)
             [] OTHER -> None>>
         \o process_choice(Tail(m), Tail(l), Tail(k))

MValues == {T("j"), T("f"), T("d"), T("x"), None}

LValues == {T("a"), T("b")}

KValues == {T("e"), None}

ChoiceExample ==
    [m |-> <<T("j"), T("f"), T("d"), T("x")>>,
     l |-> <<T("a"), T("b"), T("c"), T("d")>>,
     k |-> <<T("e"), T("f"), T("g"), T("h")>>]

InitChoice ==
    /\ \/ \E m \in SeqsUpTo(MValues, MaxLen), l \in SeqsUpTo(LValues, MaxLen),
            k \in SeqsUpTo(KValues, MaxLen) : args = [m |-> m, l |-> l, k |-> k]
       \/ args = ChoiceExample
    /\ result = <<>>
    /\ pc = "call"
    /\ worksheet = <<>>
    /\ NoRun

ProcessChoice ==
    /\ pc = "call"
    /\ result' = process_choice(args.m, args.l, args.k)
    /\ pc' = "returned"
    /\ UNCHANGED <<args, worksheet, runVars>>

SpecChoice == InitChoice /\ [][ProcessChoice]_vars

(* process_same_choice(p_column, j_column) *)

\* process_same_choice testing "don't know" before equality
RECURSIVE process_same_choice_dont_know_first(_, _)
process_same_choice_dont_know_first(p, j) ==
    IF p = <<>> \/ j = <<>> THEN <<>>
    ELSE <<IF Head(p) = PyStr(DONT_KNOW) THEN "0.5"
           ELSE IF Head(p) = Head(j) THEN "1.0"
           ELSE "0.0">>
         \o process_same_choice_dont_know_first(Tail(p), Tail(j))

\* the floats 1.0, 0.5 and 0.0 are written as their literals
RECURSIVE process_same_choice(_, _)
process_same_choice(p, j) ==
    IF p = <<>> \/ j = <<>> THEN <<>>
    ELSE <<IF Head(p) = Head(j) THEN "1.0"
           ELSE IF Head(p) = PyStr(DONT_KNOW) THEN "0.5"
           ELSE "0.0">>
         \o process_same_choice(Tail(p), Tail(j))

PValues == {T("x"), T("y"), PyStr(DONT_KNOW), None}

JValues == {T("x"), T("z"), PyStr(DONT_KNOW), None}

SameChoiceExample ==
    [p |-> <<T("x"), PyStr(DONT_KNOW), T("y")>>, j |-> <<T("x"), T("z"), T("z")>>]

InitSameChoice ==
    /\ \/ \E p \in SeqsUpTo(PValues, MaxLen), j \in SeqsUpTo(JValues, MaxLen) :
            args = [p |-> p, j |-> j]
       \/ args = SameChoiceExample
    /\ result = <<>>
    /\ pc = "call"
    /\ worksheet = <<>>
    /\ NoRun

ProcessSameChoice ==
    /\ pc = "call"
    /\ result' = process_same_choice(args.p, args.j)
    /\ pc' = "returned"
    /\ UNCHANGED <<args, worksheet, runVars>>

SpecSameChoice == InitSameChoice /\ [][ProcessSameChoice]_vars

(* get_belief_type(column) *)

\* str(cell.value)[-1] if cell.value else ''
belief_type_of(value) ==
    IF truthy(value) THEN PyStr(<<str(value)[Len(str(value))]>>) ELSE PyStr(<<>>)

get_belief_type(column) == [i \in 1..Len(column) |-> belief_type_of(column[i])]

BeliefValues == {
    PyStr(<<"a", "b", "c", "A">>),
    PyStr(<<>>),
    PyStr(<<"x", "y", "z", "B">>),
    None,
    PyInt(0),
    PyInt(7),
    PyInt(10) }

InitBelief ==
    /\ args \in SeqsUpTo(BeliefValues, MaxLen)
    /\ result = <<>>
    /\ pc = "call"
    /\ worksheet = <<>>
    /\ NoRun

GetBeliefType ==
    /\ pc = "call"
    /\ result' = get_belief_type(args)
    /\ pc' = "returned"
    /\ UNCHANGED <<args, worksheet, runVars>>

SpecBelief == InitBelief /\ [][GetBeliefType]_vars

----------------------------------------------------------------------------
(* The properties *)

\* the field table as the specification states it: the output field, its row
\* offset from the sample's start row and its source column
SpecFields == <<
    [name |-> COLUMN_HEADERS[2], row_off |-> 0, col |-> 3],    \* trial
    [name |-> COLUMN_HEADERS[4], row_off |-> 0, col |-> 6],    \* condition
    [name |-> COLUMN_HEADERS[6], row_off |-> 0, col |-> 5],    \* Relationship
    [name |-> COLUMN_HEADERS[7], row_off |-> 1, col |-> 14],   \* ControlQ1 Copy 2
    [name |-> COLUMN_HEADERS[8], row_off |-> 2, col |-> 14],   \* ControlQ1 Copy - 2 - 2
    [name |-> COLUMN_HEADERS[9], row_off |-> 3, col |-> 5],    \* FirstMoozleProp Copy 13
    [name |-> COLUMN_HEADERS[10], row_off |-> 4, col |-> 5],   \* SecondMoozleProp Copy 13
    [name |-> COLUMN_HEADERS[11], row_off |-> 5, col |-> 5],   \* SecondMoozleProp2 Copy 13
    [name |-> COLUMN_HEADERS[5], row_off |-> 6, col |-> 12],   \* time
    [name |-> COLUMN_HEADERS[12], row_off |-> 6, col |-> 14],  \* ChoiceResponse Copy 2
    [name |-> COLUMN_HEADERS[13], row_off |-> 7, col |-> 14],  \* ControlQ2 Copy 2
    [name |-> COLUMN_HEADERS[14], row_off |-> 8, col |-> 14] >> \* ControlQ2 Copy-2 - 2

\* the start row as the specification states it
SpecStartRow(s) == IF s = 2 THEN 1 ELSE (s - 2) * 9 + 1

Samples == START_SAMPLE..END_SAMPLE

\* the rows of a sheet below the header row
DataRows(ws) == {rc[1] : rc \in DOMAIN ws} \ {1}

\* the value of a cell of the output sheet; Absent when there is no such cell
OutValue(row, col) ==
    IF <<row, col>> \in DOMAIN new_worksheet THEN new_worksheet[<<row, col>>] ELSE Absent

\* the output columns whose header in row 1 is name
HeaderColumns(name) ==
    {c \in 1..Len(COLUMN_HEADERS) : OutValue(1, c) = PyStr(name)}

\* the source cell of field f for sample s
SourceValue(s, f) == cell_value(worksheet, SpecStartRow(s) + f.row_off, f.col)

Unreadable(s, f) == SourceValue(s, f).t = "none" \/ SourceValue(s, f) = PyStr(<<>>)

\* the three removals of the cleaning rule, on a text
Cleaned(x) == replace(replace(replace(x, PICT), <<"[">>), <<"]">>)

\* C1: after process_worksheet the output holds exactly END_SAMPLE -
\* START_SAMPLE + 1 (24) data rows below the header, one per sample index,
\* whatever cells of the source are missing or empty; an unreadable source
\* cell leaves the empty string in its field.  While the loop runs, the rows
\* written so far are those of the samples already processed.
C1_OneRowPerSample ==
    /\ pc = "samples" => DataRows(new_worksheet) = START_SAMPLE..(sample_num - 1)
    /\ pc = "done" =>
        /\ DataRows(new_worksheet) = Samples
        /\ Cardinality(DataRows(new_worksheet)) = END_SAMPLE - START_SAMPLE + 1
        /\ Cardinality(DataRows(new_worksheet)) = 24
        /\ \A s \in Samples : \A i \in 1..Len(SpecFields) :
               Unreadable(s, SpecFields[i]) =>
                   \A c \in HeaderColumns(SpecFields[i].name) : OutValue(s, c) = PyStr(<<>>)

\* a finished run over a sheet in which one sample's whole block is unreadable
\* and another sample has a readable cell
C1_Witness ==
    /\ pc = "done"
    /\ \E s \in Samples : \A i \in 1..Len(SpecFields) : Unreadable(s, SpecFields[i])
    /\ \E s \in Samples : \E i \in 1..Len(SpecFields) : ~Unreadable(s, SpecFields[i])

\* C2: for every sample s and every field of the field table, the output cell
\* at row s in the column whose row-1 header is the field's name holds the
\* cleaned value of the source cell at (startRow(s) + row offset, column), or
\* the empty string when that cell is absent or empty.
C2_FieldMapping ==
    pc = "done" =>
        \A s \in Samples : \A i \in 1..Len(SpecFields) :
            /\ Cardinality(HeaderColumns(SpecFields[i].name)) = 1
            /\ \A c \in HeaderColumns(SpecFields[i].name) :
                   OutValue(s, c) =
                       IF Unreadable(s, SpecFields[i]) THEN PyStr(<<>>)
                       ELSE PyStr(Cleaned(str(SourceValue(s, SpecFields[i]))))

\* a finished run in which some field's source carried artifact markup that
\* cleaning removed, and some other field's source was unreadable
C2_Witness ==
    /\ pc = "done"
    /\ \E s \in Samples : \E i \in 1..Len(SpecFields) :
           /\ SourceValue(s, SpecFields[i]).t = "str"
           /\ Contains(SourceValue(s, SpecFields[i]).s, PICT)
           /\ \E c \in HeaderColumns(SpecFields[i].name) :
                  /\ OutValue(s, c) # SourceValue(s, SpecFields[i])
                  /\ OutValue(s, c).s # <<>>
    /\ \E s \in Samples : \E i \in 1..Len(SpecFields) : Unreadable(s, SpecFields[i])

HasPrefix(x, prefix) == Len(x) >= Len(prefix) /\ SubSeq(x, 1, Len(prefix)) = prefix

\* cell A12 is malformed: missing or empty, not a text with the prefix
\* 'Subject Number: ', or with a remainder that is no number
Malformed(v) ==
    \/ v.t = "none"
    \/ v.t = "int"
    \/ /\ v.t = "str"
       /\ \/ v.s = <<>>
          \/ ~HasPrefix(v.s, SUBJECT_PREFIX)
          \/ int(SubSeq(v.s, Len(SUBJECT_PREFIX) + 1, Len(v.s))).raised

\* C3: whenever cell A12 is malformed, the subject-number accessor records a
\* warning and yields 0, and every output data row carries Subject Number 0.
C3_MalformedSubjectDefaultsToZero ==
    (pc \in {"samples", "done"}
        /\ Malformed(cell_value(worksheet, SUBJECT_NUMBER_CELL[1], SUBJECT_NUMBER_CELL[2])))
    => /\ warnings >= 1
       /\ subject_number = PyInt(0)
       /\ \A r \in DataRows(new_worksheet) : OutValue(r, 1) = PyInt(0)

\* C9: the start row computed for sample s is 1 when s = 2 and (s - 2) * 9 + 1
\* when s > 2; s = 3 gives 10; each later sample starts TRIALS_PER_SAMPLE rows
\* after the one before it.
C9_StartRow ==
    \A s \in DOMAIN start_rows :
        /\ s = 2 => start_rows[s] = 1
        /\ s > 2 => start_rows[s] = (s - 2) * 9 + 1
        /\ s = 3 => start_rows[s] = 10
        /\ s > START_SAMPLE =>
               /\ s - 1 \in DOMAIN start_rows
               /\ start_rows[s] = start_rows[s - 1] + TRIALS_PER_SAMPLE

\* every sample of the range has had its start row computed
C9_Witness == pc = "done" /\ DOMAIN start_rows = Samples /\ start_rows[3] = 10

\* the coordinates the specification gives for sample s
SpecCoords(s) ==
    {<<SpecStartRow(s) + SpecFields[i].row_off, SpecFields[i].col>> :
        i \in 1..Len(SpecFields)}

\* C10: the coordinates read for two distinct samples are disjoint; sample s
\* reads only rows startRow(s) .. startRow(s) + 8, the blocks of two samples
\* do not overlap, and the coordinates read for s are those the field table
\* gives for s, whatever the sheet holds.
C10_DisjointReads ==
    /\ \A s \in DOMAIN reads :
           /\ reads[s] = SpecCoords(s)
           /\ \A rc \in reads[s] : rc[1] \in SpecStartRow(s)..(SpecStartRow(s) + 8)
    /\ \A s1 \in DOMAIN reads : \A s2 \in DOMAIN reads :
           s1 < s2 =>
               /\ reads[s1] \cap reads[s2] = {}
               /\ \A rc1 \in reads[s1] : \A rc2 \in reads[s2] : rc1[1] < rc2[1]

\* all samples have been read, the last row of one block and the first row of
\* the next among the reads
C10_Witness ==
    /\ pc = "done"
    /\ DOMAIN reads = Samples
    /\ <<9, 14>> \in reads[2]
    /\ <<10, 3>> \in reads[3]

\* C4: _get_cell_value_safely always returns a string: the empty string when
\* the access fails, the cell is absent or its value is None or empty, and
\* otherwise the cleaned string form of the value.
C4_ReaderTotal ==
    pc = "returned" =>
        /\ result.t = "str"
        /\ cell_raises(args[1], args[2]) => result = PyStr(<<>>)
        /\ ~cell_raises(args[1], args[2]) =>
               LET v == cell_value(worksheet, args[1], args[2])
               IN  result = IF v.t = "none" THEN PyStr(<<>>) ELSE PyStr(Cleaned(str(v)))

\* a read whose access failed returned the empty string
C4_Witness ==
    pc = "returned" /\ cell_raises(args[1], args[2]) /\ result = PyStr(<<>>)

NoMarkup(x) == ~Contains(x, PICT) /\ ~Contains(x, <<"[">>) /\ ~Contains(x, <<"]">>)

\* C5 as stated: for every input, cleaning the cleaned value changes nothing;
\* a string with none of the three substrings is returned unchanged, and
\* 'foo[1].PICT @ :Pictures:' cleans to 'foo1'.
C5_Idempotent ==
    /\ pc \in {"once", "twice"} =>
        /\ (args.t = "str" /\ NoMarkup(args.s)) => result[1] = args
        /\ args = PyStr(FooExample) => result[1] = PyStr(<<"f", "o", "o", "1">>)
    /\ pc = "twice" => result[2] = result[1]

\* C5 as amended: the cleaned value holds no '[' and no ']'; cleaning it again
\* changes nothing unless the removals joined the pieces of a new
\* '.PICT @ :Pictures:' in it; a string with none of the three substrings is
\* returned unchanged, and 'foo[1].PICT @ :Pictures:' cleans to 'foo1'.
C5_IdempotentUnlessSpliced ==
    /\ pc \in {"once", "twice"} =>
        /\ ~Contains(result[1].s, <<"[">>) /\ ~Contains(result[1].s, <<"]">>)
        /\ (args.t = "str" /\ NoMarkup(args.s)) => result[1] = args
        /\ args = PyStr(FooExample) => result[1] = PyStr(<<"f", "o", "o", "1">>)
    /\ pc = "twice" =>
        /\ ~Contains(result[1].s, PICT) => result[2] = result[1]
        /\ Contains(result[1].s, PICT) => result[2] = PyStr(replace(result[1].s, PICT))

\* a value with brackets and the artifact literal was cleaned, and cleaning
\* the result again changed nothing
C5_Witness ==
    /\ pc = "twice"
    /\ args.t = "str"
    /\ Contains(args.s, PICT)
    /\ Contains(args.s, <<"[">>)
    /\ result[1] # args
    /\ result[2] = result[1]

\* C6: over three columns of equal length process_choice returns a sequence of
\* that length: L's value where M is 'j', K's value where M is 'f', "don't
\* know" where M is 'd', None elsewhere.
C6_ChoiceResolution ==
    (pc = "returned" /\ Len(args.m) = Len(args.l) /\ Len(args.m) = Len(args.k)) =>
        /\ Len(result) = Len(args.m)
        /\ \A i \in 1..Len(args.m) :
               /\ args.m[i] = T("j") => result[i] = args.l[i]
               /\ args.m[i] = T("f") => result[i] = args.k[i]
               /\ args.m[i] = T("d") => result[i] = PyStr(DONT_KNOW)
               /\ args.m[i] \notin {T("j"), T("f"), T("d")} => result[i] = None

\* the call on M = j, f, d, x returned a, f, "don't know", None
C6_Witness ==
    /\ pc = "returned"
    /\ args = ChoiceExample
    /\ result = <<T("a"), T("f"), PyStr(DONT_KNOW), None>>

\* C7: over two columns of equal length process_same_choice returns a sequence
\* of that length: 1.0 where P equals J (also when both are "don't know"), 0.5
\* where they differ and P is "don't know", 0.0 elsewhere.
C7_SameChoiceScoring ==
    (pc = "returned" /\ Len(args.p) = Len(args.j)) =>
        /\ Len(result) = Len(args.p)
        /\ \A i \in 1..Len(args.p) :
               /\ args.p[i] = args.j[i] => result[i] = "1.0"
               /\ (args.p[i] # args.j[i] /\ args.p[i] = PyStr(DONT_KNOW)) => result[i] = "0.5"
               /\ (args.p[i] # args.j[i] /\ args.p[i] # PyStr(DONT_KNOW)) => result[i] = "0.0"

\* a call in which both columns held "don't know" in a row, which scored 1.0,
\* and P alone held it in another, which scored 0.5
C7_Witness ==
    /\ pc = "returned"
    /\ Len(args.p) = Len(args.j)
    /\ \E i \in 1..Len(args.p) :
           args.p[i] = PyStr(DONT_KNOW) /\ args.j[i] = PyStr(DONT_KNOW) /\ result[i] = "1.0"
    /\ \E i \in 1..Len(args.p) :
           args.p[i] = PyStr(DONT_KNOW) /\ args.j[i] # PyStr(DONT_KNOW) /\ result[i] = "0.5"

\* C8: get_belief_type yields, for every cell, the last character of the
\* string form of its value, and the empty string exactly when the cell is
\* empty (None or ''); a number such as 0 yields the last character too.
C8_BeliefType ==
    pc = "returned" =>
        /\ Len(result) = Len(args)
        /\ \A i \in 1..Len(args) :
               result[i] = IF args[i].t = "none" \/ args[i] = PyStr(<<>>) THEN PyStr(<<>>)
                           ELSE PyStr(<<str(args[i])[Len(str(args[i]))]>>)

====
